---- MODULE Spec2Model ----
(***************************************************************************)
(* JViewPro: the JSON exploration engine.                                  *)
(*                                                                         *)
(*   - JsonTreeView / JsonTreeNode (src/src/components/json-tree-view.tsx):*)
(*     expansion set, search, hit navigation and the node-budgeted render  *)
(*     pass.                                                               *)
(*   - the json-parser library (src/src/app/page.tsx, lines 446-735):      *)
(*     parseJsonString, analyzeJsonStructure, extractJsonPaths,            *)
(*     searchInJson, getJsonType.                                          *)
(*   - HomePage (src/src/app/page.tsx), useAsyncState                     *)
(*     (src/src/hooks/use-async-state.ts), FileUpload.handleFiles          *)
(*     (src/unnamed/part_001) with extractZipFile.                         *)
(*                                                                         *)
(* A JavaScript string is modelled as a sequence of one-character strings, *)
(* so that includes, toLowerCase, trim, split and template literals are    *)
(* computed and not assumed.  A JavaScript value graph is a heap: a        *)
(* sequence of nodes, a reference is an index into it, node 1 is the root. *)
(***************************************************************************)
EXTENDS Integers, Sequences, FiniteSets, TLC

VARIABLES
    data,               \* JsonTreeView prop: the document (a heap)
    maxNodes,           \* JsonTreeView prop: the node budget
    expandedPaths,      \* useState<Set<string>>(new Set(['']))
    searchTerm,         \* useState('')
    searchResults,      \* useState([])
    currentSearchIndex, \* useState(-1)
    pc,                 \* where React is: "render", "nodes", "effect", "idle"
    effectPending,      \* a dependency of the search useEffect has changed
    nodeCount,          \* nodeCount.current of the running / last render pass
    work,               \* JsonTreeNode elements created and not yet rendered
    visible,            \* what the render pass has emitted so far, in order
    alert,              \* the 'Node limit reached' alert is part of the output
    ops,                \* number of handler calls so far (bounded by MaxOps)
    lastOp,             \* name of the last handler called
    lib,                \* last call of a json-parser library function
    page,               \* HomePage: files and activeFileIndex
    hook,               \* useAsyncState: state and the execute calls in flight
    upload              \* FileUpload: the last handleFiles call

vars == <<data, maxNodes, expandedPaths, searchTerm, searchResults,
          currentSearchIndex, pc, effectPending, nodeCount, work, visible,
          alert, ops, lastOp, lib, page, hook, upload>>

viewVars == <<data, maxNodes, expandedPaths, searchTerm, searchResults,
              currentSearchIndex, pc, effectPending, nodeCount, work, visible,
              alert, ops, lastOp>>

(***************************************************************************)
(* Bounds                                                                  *)
(***************************************************************************)
MaxOps == 3
MaxNodesBound == 3
MaxDepthBound == 3
MaxLibNodes == 6

(***************************************************************************)
(* Strings                                                                 *)
(***************************************************************************)
UpperAlpha == <<"A","B","C","D","E","F","G","H","I","J","K","L","M",
                "N","O","P","Q","R","S","T","U","V","W","X","Y","Z">>
LowerAlpha == <<"a","b","c","d","e","f","g","h","i","j","k","l","m",
                "n","o","p","q","r","s","t","u","v","w","x","y","z">>
Digits == <<"0","1","2","3","4","5","6","7","8","9">>

LowerChar(c) ==
    IF \E i \in 1..Len(UpperAlpha) : UpperAlpha[i] = c
    THEN LowerAlpha[CHOOSE i \in 1..Len(UpperAlpha) : UpperAlpha[i] = c]
    ELSE c

\* String.prototype.toLowerCase
ToLowerCase(s) == [i \in 1..Len(s) |-> LowerChar(s[i])]

\* String.prototype.includes
Includes(s, sub) ==
    \E i \in 0..(Len(s) - Len(sub)) : SubSeq(s, i + 1, i + Len(sub)) = sub

\* a white space character of trim: the space and the no-break space U+00A0
IsSpace(c) == c \in {" ", "nbsp"}

\* String.prototype.trim
Trim(s) ==
    IF \A i \in 1..Len(s) : IsSpace(s[i])
    THEN <<>>
    ELSE LET first == CHOOSE i \in 1..Len(s) :
                         ~IsSpace(s[i]) /\ \A j \in 1..(i - 1) : IsSpace(s[j])
             last  == CHOOSE i \in 1..Len(s) :
                         ~IsSpace(s[i]) /\ \A j \in (i + 1)..Len(s) : IsSpace(s[j])
         IN  SubSeq(s, first, last)

\* `${n}` for a non-negative integer n
RECURSIVE NatToStr(_)
NatToStr(n) ==
    IF n < 10 THEN <<Digits[n + 1]>>
    ELSE NatToStr(n \div 10) \o <<Digits[(n % 10) + 1]>>

\* the character class [.\[\]] of both split calls
IsDelim(c) == c \in {".", "[", "]"}

RECURSIVE SplitAcc(_, _, _, _)
SplitAcc(s, i, cur, acc) ==
    IF i > Len(s) THEN Append(acc, cur)
    ELSE IF IsDelim(s[i]) THEN SplitAcc(s, i + 1, <<>>, Append(acc, cur))
    ELSE SplitAcc(s, i + 1, Append(cur, s[i]), acc)

\* path.split(/[.[\]]/).filter(Boolean)
IsTruthyStr(f) == f # <<>>
SplitPath(s) == SelectSeq(SplitAcc(s, 1, <<>>, <<>>), IsTruthyStr)

(***************************************************************************)
(* Values                                                                  *)
(***************************************************************************)
Obj(keys, kids) == [type |-> "object", keys |-> keys, kids |-> kids, str |-> <<>>]
Arr(kids)       == [type |-> "array",  keys |-> <<>>, kids |-> kids, str |-> <<>>]
StrV(s)         == [type |-> "string", keys |-> <<>>, kids |-> <<>>, str |-> s]
NumV(s)         == [type |-> "number", keys |-> <<>>, kids |-> <<>>, str |-> s]
BoolV(s)        == [type |-> "boolean", keys |-> <<>>, kids |-> <<>>, str |-> s]
NullV           == [type |-> "null",   keys |-> <<>>, kids |-> <<>>,
                    str |-> <<"n","u","l","l">>]

\* getJsonType
getJsonType(g, id) == g[id].type

ObjectObjectStr == <<"[","o","b","j","e","c","t"," ","O","b","j","e","c","t","]">>

\* String(value): a scalar prints itself, an object prints '[object Object]',
\* an array prints its elements joined by ',' (null elements print empty)
RECURSIVE StringOf(_, _)
RECURSIVE JoinFrom(_, _, _)
JoinFrom(g, kids, i) ==
    IF i > Len(kids) THEN <<>>
    ELSE (IF i > 1 THEN <<",">> ELSE <<>>)
         \o (IF g[kids[i]].type = "null" THEN <<>> ELSE StringOf(g, kids[i]))
         \o JoinFrom(g, kids, i + 1)
StringOf(g, id) ==
    CASE g[id].type = "object" -> ObjectObjectStr
      [] g[id].type = "array"  -> JoinFrom(g, g[id].kids, 1)
      [] OTHER                 -> g[id].str

(***************************************************************************)
(* Documents and search terms the model draws its inputs from              *)
(***************************************************************************)
\* {"a":{"b":1}}
DocNested == << Obj(<< <<"a">> >>, <<2>>), Obj(<< <<"b">> >>, <<3>>), NumV(<<"1">>) >>
\* {"user":{"id":1}}
DocUser == << Obj(<< <<"u","s","e","r">> >>, <<2>>),
              Obj(<< <<"i","d">> >>, <<3>>), NumV(<<"1">>) >>
\* {"name":"Widget","tags":["red","name-tag"]}
DocWidget == << Obj(<< <<"n","a","m","e">>, <<"t","a","g","s">> >>, <<2, 3>>),
                StrV(<<"W","i","d","g","e","t">>),
                Arr(<<4, 5>>),
                StrV(<<"r","e","d">>),
                StrV(<<"n","a","m","e","-","t","a","g">>) >>
\* {"a":{"b":["x"]}}
DocDeepArr == << Obj(<< <<"a">> >>, <<2>>), Obj(<< <<"b">> >>, <<3>>),
                 Arr(<<4>>), StrV(<<"x">>) >>
\* {"a":[0,{"b":"x"}]}
DocArrObj == << Obj(<< <<"a">> >>, <<2>>), Arr(<<3, 4>>), NumV(<<"0">>),
                Obj(<< <<"b">> >>, <<5>>), StrV(<<"x">>) >>
\* [{"x":null}]
DocRootArr == << Arr(<<2>>), Obj(<< <<"x">> >>, <<3>>), NullV >>
\* {"a":1,"b":2}
DocFlat == << Obj(<< <<"a">>, <<"b">> >>, <<2, 3>>), NumV(<<"1">>), NumV(<<"2">>) >>
\* "red"
DocScalar == << StrV(<<"r","e","d">>) >>

Docs == {DocNested, DocUser, DocWidget, DocDeepArr, DocArrObj, DocRootArr, DocFlat,
         DocScalar}

\* const a = []; a.push(a)
GraphSelfArray == << Arr(<<1>>) >>
\* const o = {list: []}; o.list.push(o)
GraphCycleObj == << Obj(<< <<"l","i","s","t">> >>, <<2>>), Arr(<<1>>) >>
\* const s = {k: 1}; [s, s]
GraphShared == << Arr(<<2, 2>>), Obj(<< <<"k">> >>, <<3>>), NumV(<<"1">>) >>

\* {"a.b":"b","a":{"b":"b"}}
DocDotKey == << Obj(<< <<"a",".","b">>, <<"a">> >>, <<2, 3>>), StrV(<<"b">>),
                Obj(<< <<"b">> >>, <<4>>), StrV(<<"b">>) >>

\* {"":1}
DocEmptyKey == << Obj(<< <<>> >>, <<2>>), NumV(<<"1">>) >>

\* the documents the library search and extractJsonPaths are called with
SearchDocs == Docs \cup {DocDotKey, DocEmptyKey}

Graphs == Docs \cup {GraphSelfArray, GraphCycleObj, GraphShared}

SearchTerms == { <<>>, <<" ">>, <<"r","e","d">>, <<"U","s","e","r">>,
                 <<"n","a","m","e">>, <<"x">> }

\* the queries the library search is called with
LibQueries == SearchTerms \cup { <<"b">> }

(***************************************************************************)
(* JsonTreeNode: one function-component call                               *)
(***************************************************************************)
\* isExpandable && (length > 0)
hasChildren(g, id) ==
    /\ g[id].type \in {"object", "array"}
    /\ Len(g[id].kids) > 0

\* `${path}[${i}]`, i counted from 0
ArrayChildPath(path, i) == path \o <<"[">> \o NatToStr(i) \o <<"]">>

\* path ? `${path}.${key}` : key
ObjectChildPath(path, key) == IF path # <<>> THEN path \o <<".">> \o key ELSE key

\* the isExpanded prop every child element is created with
ChildIsExpandedAlways(path, expanded) == TRUE
ChildIsExpanded(path, expanded) == FALSE

Element(id, path, level, isExpanded) ==
    [id |-> id, path |-> path, level |-> level, isExpanded |-> isExpanded]

\* if (nodeCount.current >= maxNodes) return <limit marker>
LimitReachedOffByOne(count, max) == count > max
LimitReached(count, max) == count >= max

\* the two for loops of renderChildren.  children.push(<JsonTreeNode .../>)
\* creates an element and does not call JsonTreeNode: React renders the
\* children after this call has returned, so nodeCount.current keeps the
\* value `count` during the whole loop.
RECURSIVE ChildLoop(_, _, _, _, _, _, _)
ChildLoop(g, e, i, count, max, expanded, children) ==
    IF i < Len(g[e.id].kids) /\ count < max
    THEN LET childPath == IF g[e.id].type = "array"
                          THEN ArrayChildPath(e.path, i)
                          ELSE ObjectChildPath(e.path, g[e.id].keys[i + 1])
             child == Element(g[e.id].kids[i + 1], childPath, e.level + 1,
                              ChildIsExpanded(childPath, expanded))
         IN  ChildLoop(g, e, i + 1, count, max, expanded, Append(children, child))
    ELSE children

renderChildren(g, e, count, max, expanded) ==
    IF ~e.isExpanded \/ ~hasChildren(g, e.id) THEN <<>>
    ELSE ChildLoop(g, e, 0, count, max, expanded, <<>>)

Marker(e) == [kind |-> "limit", id |-> e.id, path |-> e.path, level |-> e.level]
Emitted(e) == [kind |-> "node", id |-> e.id, path |-> e.path, level |-> e.level]

(***************************************************************************)
(* JsonTreeView: search                                                    *)
(***************************************************************************)
Hit(g, id, path) == [path |-> path, value |-> id, type |-> getJsonType(g, id)]

\* valueStr.includes(searchLower)
TreeValueMatches(g, id, searchLower) ==
    Includes(ToLowerCase(StringOf(g, id)), searchLower)

\* path.toLowerCase().includes(searchLower)
TreePathMatches(path, searchLower) == Includes(ToLowerCase(path), searchLower)

\* the recursive body of the component's searchInJson (the term is not blank)
\* const newPath = path ? `${path}.${key}` : key
TreeSearchObjectPath(path, key) == IF path # <<>> THEN path \o <<".">> \o key ELSE key
\* const newPath = `${path}[${index}]`
TreeSearchArrayPath(path, index) == path \o <<"[">> \o NatToStr(index) \o <<"]">>

RECURSIVE TreeSearchRec(_, _, _, _, _)
RECURSIVE TreeSearchKids(_, _, _, _, _, _)
TreeSearchKids(g, id, i, path, results, searchLower) ==
    IF i > Len(g[id].kids) THEN results
    ELSE LET newPath == IF g[id].type = "object"
                        THEN TreeSearchObjectPath(path, g[id].keys[i])
                        ELSE TreeSearchArrayPath(path, i - 1)
         IN  TreeSearchKids(g, id, i + 1, path,
                 TreeSearchRec(g, g[id].kids[i], newPath, results, searchLower),
                 searchLower)
TreeSearchRec(g, id, path, results, searchLower) ==
    LET r1 == IF TreeValueMatches(g, id, searchLower)
              THEN Append(results, Hit(g, id, path)) ELSE results
        r2 == IF TreePathMatches(path, searchLower)
              THEN Append(r1, Hit(g, id, path)) ELSE r1
    IN  IF g[id].type \in {"object", "array"}
        THEN TreeSearchKids(g, id, 1, path, r2, searchLower)
        ELSE r2

\* if (!searchTerm.trim()) return []
TermIsBlank(term) == Trim(term) = <<>>

\* searchInJson(data) as the effect calls it
TreeSearch(g, term) ==
    IF TermIsBlank(term) THEN <<>>
    ELSE TreeSearchRec(g, 1, <<>>, <<>>, ToLowerCase(term))

\* the forEach over pathParts of the auto-expansion
RECURSIVE ExpandParts(_, _, _, _, _)
ExpandParts(parts, index, currentPath, bracketed, acc) ==
    IF index >= Len(parts) THEN acc
    ELSE LET part == parts[index + 1]
             next == IF index = 0 THEN part
                     ELSE IF bracketed
                          THEN currentPath \o <<"[">> \o part \o <<"]">>
                          ELSE currentPath \o <<".">> \o part
         IN  ExpandParts(parts, index + 1, next, bracketed, acc \cup {next})

PathsToExpandFor(path) ==
    ExpandParts(SplitPath(path), 0, <<>>,
                Includes(path, <<"[">>) /\ Includes(path, <<"]">>), {})

PathsToExpandFresh(prev, results) ==
    UNION { PathsToExpandFor(results[i].path) : i \in 1..Len(results) } \cup { <<>> }
PathsToExpand(prev, results) ==
    prev \cup UNION { PathsToExpandFor(results[i].path) : i \in 1..Len(results) }
         \cup { <<>> }

\* setCurrentSearchIndex(results.length > 0 ? 0 : -1)
FreshIndexZero(n) == 0
FreshIndex(n) == IF n > 0 THEN 0 ELSE -1

\* navigateSearchResults
NavNoHitsNever(n) == FALSE
NavNoHits(n) == n = 0
NextIndexNoWrap(prev, n) == IF prev < n THEN prev + 1 ELSE 0
NextIndex(prev, n) == IF prev < n - 1 THEN prev + 1 ELSE 0
PrevIndex(prev, n) == IF prev > 0 THEN prev - 1 ELSE n - 1

\* expandAll: new Set(['', 'item0', ..., 'item19'])
ExpandAllCount == 20
ExpandAllPaths ==
    { <<>> } \cup { <<"i","t","e","m">> \o NatToStr(i) : i \in 0..(ExpandAllCount - 1) }

(***************************************************************************)
(* The component as a state machine                                        *)
(***************************************************************************)
NoLib == [fn |-> "none"]

\* HomePage: useState<FileData[]>([]), useState(0)
PageMount == [files |-> <<>>, activeFileIndex |-> 0]

\* useAsyncState: useState({ data: initialData, loading: false, error: null });
\* data 0 is initialData and error 0 is null, data i is the value the promise of
\* the i-th execute call resolves with and error i the error it rejects with
HookMount == [state |-> [data |-> 0, loading |-> FALSE, error |-> 0],
              calls |-> <<>>, overlapped |-> FALSE, manual |-> FALSE]

NoUpload == [fn |-> "none"]

Init ==
    /\ data \in Docs
    /\ maxNodes \in 0..MaxNodesBound
    /\ expandedPaths = { <<>> }
    /\ searchTerm = <<>>
    /\ searchResults = <<>>
    /\ currentSearchIndex = -1
    /\ pc = "render"
    /\ effectPending = TRUE
    /\ nodeCount = 0
    /\ work = <<>>
    /\ visible = <<>>
    /\ alert = FALSE
    /\ ops = 0
    /\ lastOp = "mount"
    /\ lib = NoLib
    /\ page = PageMount
    /\ hook = HookMount
    /\ upload = NoUpload

\* {nodeCount.current >= maxNodes && <Alert .../>}, evaluated in the body of
\* JsonTreeView, where the root element has been created and not rendered
AlertCondition(count, max) == count >= max

\* the body of JsonTreeView: a fresh counter, the root element, the alert
RenderView ==
    /\ pc = "render"
    /\ nodeCount' = 0
    /\ work' = << Element(1, <<>>, 0, <<>> \in expandedPaths) >>
    /\ visible' = <<>>
    /\ alert' = AlertCondition(0, maxNodes)
    /\ pc' = "nodes"
    /\ UNCHANGED <<data, maxNodes, expandedPaths, searchTerm, searchResults,
                   currentSearchIndex, effectPending, ops, lastOp, lib, page, hook, upload>>

\* React renders the next pending JsonTreeNode element
RenderNode ==
    /\ pc = "nodes"
    /\ work # <<>>
    /\ LET e == Head(work)
       IN  IF LimitReached(nodeCount, maxNodes)
           THEN /\ visible' = Append(visible, Marker(e))
                /\ work' = Tail(work)
                /\ UNCHANGED nodeCount
           ELSE /\ nodeCount' = nodeCount + 1
                /\ visible' = Append(visible, Emitted(e))
                /\ work' = renderChildren(data, e, nodeCount + 1, maxNodes,
                                          expandedPaths) \o Tail(work)
    /\ UNCHANGED <<data, maxNodes, expandedPaths, searchTerm, searchResults,
                   currentSearchIndex, pc, effectPending, alert, ops, lastOp, lib, page, hook, upload>>

\* the render pass is complete; a pending effect runs next
Commit ==
    /\ pc = "nodes"
    /\ work = <<>>
    /\ pc' = IF effectPending THEN "effect" ELSE "idle"
    /\ UNCHANGED <<data, maxNodes, expandedPaths, searchTerm, searchResults,
                   currentSearchIndex, effectPending, nodeCount, work, visible,
                   alert, ops, lastOp, lib, page, hook, upload>>

\* useEffect(..., [data, searchInJson, searchTerm])
SearchEffect ==
    /\ pc = "effect"
    /\ LET results == TreeSearch(data, searchTerm)
       IN  /\ searchResults' = results
           /\ currentSearchIndex' = FreshIndex(Len(results))
           /\ expandedPaths' = IF Len(results) > 0 /\ Trim(searchTerm) # <<>>
                               THEN PathsToExpand(expandedPaths, results)
                               ELSE expandedPaths
    /\ effectPending' = FALSE
    /\ pc' = "render"
    /\ UNCHANGED <<data, maxNodes, searchTerm, nodeCount, work, visible, alert,
                   ops, lastOp, lib, page, hook, upload>>

Called(op) ==
    /\ pc = "idle"
    /\ ops < MaxOps
    /\ ops' = ops + 1
    /\ lastOp' = op

\* the updater of JsonTreeView.handleToggle
TogglePathAddOnly(prev, path) == prev \cup {path}
TogglePath(prev, path) ==
    IF path \in prev THEN prev \ {path} ELSE prev \cup {path}

\* JsonTreeNode.handleToggle of a displayed node, then JsonTreeView.handleToggle
HandleToggle(i) ==
    /\ Called("toggle")
    /\ visible[i].kind = "node"
    /\ IF hasChildren(data, visible[i].id)
       THEN /\ expandedPaths' = TogglePath(expandedPaths, visible[i].path)
            /\ pc' = "render"
       ELSE UNCHANGED <<expandedPaths, pc>>
    /\ UNCHANGED <<data, maxNodes, searchTerm, searchResults, currentSearchIndex,
                   effectPending, nodeCount, work, visible, alert, lib, page, hook, upload>>

ExpandAll ==
    /\ Called("expandAll")
    /\ expandedPaths' = ExpandAllPaths
    /\ pc' = "render"
    /\ UNCHANGED <<data, maxNodes, searchTerm, searchResults, currentSearchIndex,
                   effectPending, nodeCount, work, visible, alert, lib, page, hook, upload>>

CollapseAll ==
    /\ Called("collapseAll")
    /\ expandedPaths' = {}
    /\ pc' = "render"
    /\ UNCHANGED <<data, maxNodes, searchTerm, searchResults, currentSearchIndex,
                   effectPending, nodeCount, work, visible, alert, lib, page, hook, upload>>

\* onChange of the search input
SetSearchTerm(t) ==
    /\ Called("setSearchTerm")
    /\ t # searchTerm
    /\ searchTerm' = t
    /\ effectPending' = TRUE
    /\ pc' = "render"
    /\ UNCHANGED <<data, maxNodes, expandedPaths, searchResults,
                   currentSearchIndex, nodeCount, work, visible, alert, lib, page, hook, upload>>

\* the clear button, rendered while searchTerm is not empty
ClearSearch ==
    /\ Called("clearSearch")
    /\ searchTerm # <<>>
    /\ searchTerm' = <<>>
    /\ searchResults' = <<>>
    /\ currentSearchIndex' = -1
    /\ effectPending' = TRUE
    /\ pc' = "render"
    /\ UNCHANGED <<data, maxNodes, expandedPaths, nodeCount, work, visible,
                   alert, lib, page, hook, upload>>

NavigateNext ==
    /\ Called("next")
    /\ IF NavNoHits(Len(searchResults))
       THEN UNCHANGED <<currentSearchIndex, pc>>
       ELSE /\ currentSearchIndex' = NextIndex(currentSearchIndex, Len(searchResults))
            /\ pc' = "render"
    /\ UNCHANGED <<data, maxNodes, expandedPaths, searchTerm, searchResults,
                   effectPending, nodeCount, work, visible, alert, lib, page, hook, upload>>

NavigatePrev ==
    /\ Called("prev")
    /\ IF NavNoHits(Len(searchResults))
       THEN UNCHANGED <<currentSearchIndex, pc>>
       ELSE /\ currentSearchIndex' = PrevIndex(currentSearchIndex, Len(searchResults))
            /\ pc' = "render"
    /\ UNCHANGED <<data, maxNodes, expandedPaths, searchTerm, searchResults,
                   effectPending, nodeCount, work, visible, alert, lib, page, hook, upload>>

\* the parent passes another document as the data prop
SetData(d) ==
    /\ Called("setData")
    /\ d # data
    /\ data' = d
    /\ effectPending' = TRUE
    /\ pc' = "render"
    /\ UNCHANGED <<maxNodes, expandedPaths, searchTerm, searchResults,
                   currentSearchIndex, nodeCount, work, visible, alert, lib, page, hook, upload>>

Next ==
    \/ RenderView
    \/ RenderNode
    \/ Commit
    \/ SearchEffect
    \/ \E i \in 1..Len(visible) : HandleToggle(i)
    \/ ExpandAll
    \/ CollapseAll
    \/ \E t \in SearchTerms : SetSearchTerm(t)
    \/ ClearSearch
    \/ NavigateNext
    \/ NavigatePrev
    \/ \E d \in Docs : SetData(d)

Spec == Init /\ [][Next]_vars

TypeOK ==
    /\ pc \in {"render", "nodes", "effect", "idle"}
    /\ nodeCount \in Nat
    /\ currentSearchIndex \in -1..20

(***************************************************************************)
(* json-parser library: analyzeJsonStructure                               *)
(***************************************************************************)
Max(a, b) == IF a >= b THEN a ELSE b
Min(a, b) == IF a <= b THEN a ELSE b

\* if (nodeCount >= maxNodes) return
AnalyzeLimitReachedOffByOne(count, max) == count > max
AnalyzeLimitReachedEarly(count, max) == count + 1 >= max
AnalyzeLimitReached(count, max) == count >= max

\* if (currentDepth > maxDepth) return
DepthExceededOffByOne(currentDepth, max) == currentDepth >= max
DepthExceeded(currentDepth, max) == currentDepth > max

\* obj && typeof obj === 'object'
IsObjectValue(g, id) == g[id].type \in {"object", "array"}

\* visited.has(obj)
VisitedHasNever(visited, id) == FALSE
VisitedHas(visited, id) == id \in visited

\* the inner function traverse; st is <<nodeCount, depth, visited>> of the call,
\* with the composites in the order visited.add(obj) was executed for them
RECURSIVE traverse(_, _, _, _, _, _)
RECURSIVE traverseKids(_, _, _, _, _, _, _)
traverseKids(g, id, i, currentDepth, st, maxD, maxN) ==
    IF i > Len(g[id].kids) THEN st
    ELSE IF st.nodeCount < maxN
    THEN traverseKids(g, id, i + 1, currentDepth,
                      traverse(g, g[id].kids[i], currentDepth + 1, st, maxD, maxN),
                      maxD, maxN)
    ELSE IF g[id].type = "array"
    THEN st                                                  \* loop condition ends the for
    ELSE traverseKids(g, id, i + 1, currentDepth, st, maxD, maxN)   \* for-in skips the key
traverse(g, id, currentDepth, st, maxD, maxN) ==
    IF AnalyzeLimitReached(st.nodeCount, maxN) THEN st
    ELSE IF DepthExceeded(currentDepth, maxD) THEN st
    ELSE LET st1 == [st EXCEPT !.nodeCount = @ + 1,
                               !.depth = Max(@, currentDepth)]
         IN  IF IsObjectValue(g, id)
             THEN IF VisitedHas(st1.visited, id)
                  THEN st1
                  ELSE traverseKids(g, id, 1, currentDepth,
                                    [st1 EXCEPT !.visited = @ \cup {id},
                                                !.expansions = Append(@, id)],
                                    maxD, maxN)
             ELSE st1

analyzeStart == [nodeCount |-> 0, depth |-> 0, visited |-> {}, expansions |-> <<>>]

analyzeJsonStructure(g, maxD, maxN) ==
    LET st == traverse(g, 1, 0, analyzeStart, maxD, maxN)
    IN  [depth |-> st.depth,
         nodeCount |-> st.nodeCount,
         type |-> getJsonType(g, 1),
         hasCircularReferences |-> FALSE]

(***************************************************************************)
(* json-parser library: searchInJson                                       *)
(***************************************************************************)
\* keyMatch.includes(searchTerm)
LibKeyMatches(key, term, caseSensitive) ==
    Includes(IF caseSensitive THEN key ELSE ToLowerCase(key), term)

\* searchValue.includes(searchTerm)
LibValueMatches(g, id, term, caseSensitive) ==
    Includes(IF caseSensitive THEN StringOf(g, id) ELSE ToLowerCase(StringOf(g, id)),
             term)

\* const path = currentPath ? `${currentPath}[${index}]` : `[${index}]`
LibArrayPathBare(currentPath, index) ==
    IF currentPath # <<>>
    THEN currentPath \o <<"[">> \o NatToStr(index) \o <<"]">>
    ELSE NatToStr(index)
LibArrayPath(currentPath, index) ==
    IF currentPath # <<>>
    THEN currentPath \o <<"[">> \o NatToStr(index) \o <<"]">>
    ELSE <<"[">> \o NatToStr(index) \o <<"]">>
\* const path = currentPath ? `${currentPath}.${key}` : key
LibObjectPath(currentPath, key) ==
    IF currentPath # <<>> THEN currentPath \o <<".">> \o key ELSE key

RECURSIVE LibSearchRec(_, _, _, _, _, _)
RECURSIVE LibSearchKids(_, _, _, _, _, _, _)
LibSearchKids(g, id, i, currentPath, results, term, cs) ==
    IF i > Len(g[id].kids) THEN results
    ELSE IF g[id].type = "array"
    THEN LET path == LibArrayPath(currentPath, i - 1)
         IN  LibSearchKids(g, id, i + 1, currentPath,
                 LibSearchRec(g, g[id].kids[i], path, results, term, cs), term, cs)
    ELSE LET key  == g[id].keys[i]
             path == LibObjectPath(currentPath, key)
             r1   == IF LibKeyMatches(key, term, cs)
                     THEN Append(results, Hit(g, g[id].kids[i], path))
                     ELSE results
         IN  LibSearchKids(g, id, i + 1, currentPath,
                 LibSearchRec(g, g[id].kids[i], path, r1, term, cs), term, cs)
LibSearchRec(g, id, currentPath, results, term, cs) ==
    IF IsObjectValue(g, id)
    THEN LibSearchKids(g, id, 1, currentPath, results, term, cs)
    ELSE IF LibValueMatches(g, id, term, cs)
         THEN Append(results, Hit(g, id, currentPath))
         ELSE results

searchInJson(g, query, caseSensitive) ==
    LibSearchRec(g, 1, <<>>, <<>>,
                 IF caseSensitive THEN query ELSE ToLowerCase(query), caseSensitive)

(***************************************************************************)
(* json-parser library: extractJsonPaths                                   *)
(***************************************************************************)
\* const path = currentPath ? `${currentPath}[${index}]` : `[${index}]`
ExtractArrayPath(currentPath, index) ==
    IF currentPath # <<>>
    THEN currentPath \o <<"[">> \o NatToStr(index) \o <<"]">>
    ELSE <<"[">> \o NatToStr(index) \o <<"]">>
\* const path = currentPath ? `${currentPath}.${key}` : key
ExtractObjectPath(currentPath, key) ==
    IF currentPath # <<>> THEN currentPath \o <<".">> \o key ELSE key

RECURSIVE ExtractRec(_, _, _, _)
RECURSIVE ExtractKids(_, _, _, _, _)
ExtractKids(g, id, i, currentPath, paths) ==
    IF i > Len(g[id].kids) THEN paths
    ELSE LET path == IF g[id].type = "array"
                     THEN ExtractArrayPath(currentPath, i - 1)
                     ELSE ExtractObjectPath(currentPath, g[id].keys[i])
         IN  ExtractKids(g, id, i + 1, currentPath,
                         ExtractRec(g, g[id].kids[i], path, Append(paths, path)))
ExtractRec(g, id, currentPath, paths) ==
    IF IsObjectValue(g, id) THEN ExtractKids(g, id, 1, currentPath, paths) ELSE paths

extractJsonPaths(g) == ExtractRec(g, 1, <<>>, <<>>)

(***************************************************************************)
(* The library called with inputs drawn from the bounded sets.  The        *)
(* functions keep no state between calls, so a behaviour makes one call.   *)
(***************************************************************************)
InitLib ==
    /\ data = DocScalar
    /\ maxNodes = 0
    /\ expandedPaths = { <<>> }
    /\ searchTerm = <<>>
    /\ searchResults = <<>>
    /\ currentSearchIndex = -1
    /\ pc = "idle"
    /\ effectPending = FALSE
    /\ nodeCount = 0
    /\ work = <<>>
    /\ visible = <<>>
    /\ alert = FALSE
    /\ ops = 0
    /\ lastOp = "none"
    /\ lib = NoLib
    /\ page = PageMount
    /\ hook = HookMount
    /\ upload = NoUpload

CallAnalyze(g, maxD, maxN) ==
    /\ lib = NoLib
    /\ lib' = [fn |-> "analyze", g |-> g, maxDepth |-> maxD, maxNodes |-> maxN,
               result |-> analyzeJsonStructure(g, maxD, maxN)]
    /\ UNCHANGED <<viewVars, page, hook, upload>>

CallExtract(g) ==
    /\ lib = NoLib
    /\ lib' = [fn |-> "extract", g |-> g, result |-> extractJsonPaths(g)]
    /\ UNCHANGED <<viewVars, page, hook, upload>>

CallSearch(g, query, caseSensitive) ==
    /\ lib = NoLib
    /\ lib' = [fn |-> "search", g |-> g, query |-> query,
               caseSensitive |-> caseSensitive,
               result |-> searchInJson(g, query, caseSensitive)]
    /\ UNCHANGED <<viewVars, page, hook, upload>>

(***************************************************************************)
(* JSON.parse on the texts of the model: objects, arrays, strings without  *)
(* escapes, unsigned integers, true, false, null; a space is the only      *)
(* white space of the grammar (U+00A0 is not).  Nodes are numbered in      *)
(* document order.  ok = FALSE stands for the SyntaxError JSON.parse throws*)
(***************************************************************************)
IsJsonSpace(c) == c = " "
IsDigit(c) == \E k \in 1..Len(Digits) : Digits[k] = c

RECURSIVE SkipWs(_, _)
SkipWs(s, i) == IF i <= Len(s) /\ IsJsonSpace(s[i]) THEN SkipWs(s, i + 1) ELSE i

RECURSIVE DigitsEnd(_, _)
DigitsEnd(s, i) == IF i + 1 <= Len(s) /\ IsDigit(s[i + 1]) THEN DigitsEnd(s, i + 1) ELSE i

\* index of the first '"' at or after i, 0 if there is none
RECURSIVE FindQuote(_, _)
FindQuote(s, i) ==
    IF i > Len(s) THEN 0 ELSE IF s[i] = "\"" THEN i ELSE FindQuote(s, i + 1)

StartsWithAt(s, i, lit) ==
    /\ i + Len(lit) - 1 <= Len(s)
    /\ SubSeq(s, i, i + Len(lit) - 1) = lit

ParseFail == [ok |-> FALSE, next |-> 0, heap |-> <<>>, id |-> 0]
ParseOk(next, heap, id) == [ok |-> TRUE, next |-> next, heap |-> heap, id |-> id]
ParseLeaf(next, heap, node) == ParseOk(next, Append(heap, node), Len(heap) + 1)

RECURSIVE ParseValue(_, _, _)
RECURSIVE ParseMembers(_, _, _, _, _, _)
RECURSIVE ParseElements(_, _, _, _, _)
ParseMembers(s, i0, heap, id, keys, kids) ==
    LET i == SkipWs(s, i0)
        j == FindQuote(s, i + 1)
        k == SkipWs(s, j + 1)
    IN  IF i > Len(s) \/ s[i] # "\"" \/ j = 0 \/ k > Len(s) \/ s[k] # ":"
        THEN ParseFail
        ELSE LET v == ParseValue(s, k + 1, heap)
                 n == SkipWs(s, v.next)
                 keys1 == Append(keys, SubSeq(s, i + 1, j - 1))
                 kids1 == Append(kids, v.id)
             IN  IF ~v.ok \/ n > Len(s) THEN ParseFail
                 ELSE IF s[n] = ","
                 THEN ParseMembers(s, n + 1, v.heap, id, keys1, kids1)
                 ELSE IF s[n] = "}"
                 THEN ParseOk(n + 1, [v.heap EXCEPT ![id] = Obj(keys1, kids1)], id)
                 ELSE ParseFail
ParseElements(s, i0, heap, id, kids) ==
    LET v == ParseValue(s, i0, heap)
        n == SkipWs(s, v.next)
        kids1 == Append(kids, v.id)
    IN  IF ~v.ok \/ n > Len(s) THEN ParseFail
        ELSE IF s[n] = ","
        THEN ParseElements(s, n + 1, v.heap, id, kids1)
        ELSE IF s[n] = "]"
        THEN ParseOk(n + 1, [v.heap EXCEPT ![id] = Arr(kids1)], id)
        ELSE ParseFail
ParseValue(s, i0, heap) ==
    LET i == SkipWs(s, i0)
        id == Len(heap) + 1
    IN  IF i > Len(s) THEN ParseFail
        ELSE IF s[i] = "{"
        THEN IF SkipWs(s, i + 1) <= Len(s) /\ s[SkipWs(s, i + 1)] = "}"
             THEN ParseLeaf(SkipWs(s, i + 1) + 1, heap, Obj(<<>>, <<>>))
             ELSE ParseMembers(s, i + 1, Append(heap, Obj(<<>>, <<>>)), id, <<>>, <<>>)
        ELSE IF s[i] = "["
        THEN IF SkipWs(s, i + 1) <= Len(s) /\ s[SkipWs(s, i + 1)] = "]"
             THEN ParseLeaf(SkipWs(s, i + 1) + 1, heap, Arr(<<>>))
             ELSE ParseElements(s, i + 1, Append(heap, Arr(<<>>)), id, <<>>)
        ELSE IF s[i] = "\""
        THEN IF FindQuote(s, i + 1) = 0 THEN ParseFail
             ELSE ParseLeaf(FindQuote(s, i + 1) + 1, heap,
                            StrV(SubSeq(s, i + 1, FindQuote(s, i + 1) - 1)))
        ELSE IF IsDigit(s[i])
        THEN IF s[i] = "0" /\ DigitsEnd(s, i) > i THEN ParseFail
             ELSE ParseLeaf(DigitsEnd(s, i) + 1, heap, NumV(SubSeq(s, i, DigitsEnd(s, i))))
        ELSE IF StartsWithAt(s, i, <<"t","r","u","e">>)
        THEN ParseLeaf(i + 4, heap, BoolV(<<"t","r","u","e">>))
        ELSE IF StartsWithAt(s, i, <<"f","a","l","s","e">>)
        THEN ParseLeaf(i + 5, heap, BoolV(<<"f","a","l","s","e">>))
        ELSE IF StartsWithAt(s, i, <<"n","u","l","l">>)
        THEN ParseLeaf(i + 4, heap, NullV)
        ELSE ParseFail

JSONparse(s) ==
    LET r == ParseValue(s, 1, <<>>)
    IN  IF r.ok /\ SkipWs(s, r.next) > Len(s)
        THEN [ok |-> TRUE, value |-> r.heap]
        ELSE [ok |-> FALSE, value |-> <<>>]

(***************************************************************************)
(* json-parser library: parseJsonString, isValidJsonSyntax                 *)
(***************************************************************************)
\* the JavaScript value null
JsNull == << NullV >>

\* !isNaN(Number(trimmed)) on the characters of the model: a digit string
IsNumericString(s) == s # <<>> /\ \A i \in 1..Len(s) : IsDigit(s[i])

isValidJsonSyntax(jsonString) ==
    IF jsonString = <<>> THEN FALSE
    ELSE LET trimmed == Trim(jsonString)
         IN  IF trimmed = <<>> THEN FALSE
             ELSE IF \/ (trimmed[1] = "{" /\ trimmed[Len(trimmed)] = "}")
                     \/ (trimmed[1] = "[" /\ trimmed[Len(trimmed)] = "]")
                     \/ (trimmed[1] = "\"" /\ trimmed[Len(trimmed)] = "\"")
                     \/ trimmed = <<"t","r","u","e">>
                     \/ trimmed = <<"f","a","l","s","e">>
                     \/ trimmed = <<"n","u","l","l">>
                     \/ IsNumericString(trimmed)
                  THEN JSONparse(trimmed).ok
                  ELSE FALSE

\* const result: ParseResult = { data: null, metadata: {...}, errors: [], warnings: [] }
InitialResultValid(jsonString) ==
    [data |-> JsNull,
     metadata |-> [size |-> Len(jsonString), depth |-> 0, nodeCount |-> 0,
                   type |-> "unknown", isValid |-> TRUE],
     errors |-> <<>>, warnings |-> <<>>]
InitialResult(jsonString) ==
    [data |-> JsNull,
     metadata |-> [size |-> Len(jsonString), depth |-> 0, nodeCount |-> 0,
                   type |-> "unknown", isValid |-> FALSE],
     errors |-> <<>>, warnings |-> <<>>]

\* if (analysis.depth > maxDepth)
DepthLimitExceeded(depth, maxD) == depth > maxD

\* if (analysis.nodeCount > maxNodes)
NodeLimitExceededAtLimit(count, maxN) == count >= maxN
NodeLimitExceeded(count, maxN) == count > maxN

ErrInvalidSyntax == "Invalid JSON syntax"
ErrParse == "JSON Parse Error"
ErrTooManyNodes == "Too many nodes for processing"
WarnDepth == "JSON depth exceeds recommended limit"
WarnNodes == "Node count exceeds limit"

parseJsonString(jsonString, maxD, maxN, strict) ==
    LET result == InitialResult(jsonString)
    IN  IF ~isValidJsonSyntax(jsonString)
        THEN [result EXCEPT !.errors = Append(@, ErrInvalidSyntax)]
        ELSE IF ~JSONparse(jsonString).ok
        THEN [result EXCEPT !.errors = Append(@, ErrParse)]      \* the catch block
        ELSE LET parsed == JSONparse(jsonString).value
                 analysis == analyzeJsonStructure(parsed, maxD, maxN)
                 r1 == [result EXCEPT !.data = parsed,
                                      !.metadata.isValid = TRUE,
                                      !.metadata.depth = analysis.depth,
                                      !.metadata.nodeCount = analysis.nodeCount,
                                      !.metadata.type = analysis.type]
                 r2 == IF DepthLimitExceeded(analysis.depth, maxD)
                       THEN [r1 EXCEPT !.warnings = Append(@, WarnDepth)]
                       ELSE r1
             IN  IF NodeLimitExceeded(analysis.nodeCount, maxN)
                 THEN IF strict
                      THEN [r2 EXCEPT !.warnings = Append(@, WarnNodes),
                                      !.errors = Append(@, ErrTooManyNodes),
                                      !.metadata.isValid = FALSE]
                      ELSE [r2 EXCEPT !.warnings = Append(@, WarnNodes)]
                 ELSE r2

(***************************************************************************)
(* Texts the model parses                                                  *)
(***************************************************************************)
\* ''
TextEmpty == <<>>
\* '  '
TextBlank == <<" "," ">>
\* '{"a":}'
TextMissingValue == <<"{","\"","a","\"",":","}">>
\* '{"a":{"b":1}}'
TextNested == <<"{","\"","a","\"",":","{","\"","b","\"",":","1","}","}">>
\* '[1,2]'
TextArray == <<"[","1",",","2","]">>
\* 'null'
TextNull == <<"n","u","l","l">>
\* '"red"'
TextString == <<"\"","r","e","d","\"">>
\* '7'
TextNumber == <<"7">>
\* '007'
TextLeadingZero == <<"0","0","7">>
\* ' {"a":[0,{"b":"x"}]} '
TextPadded == <<" ","{","\"","a","\"",":","[","0",",","{","\"","b","\"",":","\"","x","\"","}","]","}"," ">>
\* '\u00A07'
TextNbsp == <<"nbsp","7">>
\* 'tru'
TextTruncatedLiteral == <<"t","r","u">>
\* '[1,2'
TextUnclosed == <<"[","1",",","2">>
\* '[1,]'
TextTrailingComma == <<"[","1",",","]">>
\* 'true'
TextTrue == <<"t","r","u","e">>
\* '[]'
TextEmptyArray == <<"[","]">>
\* '{"a":1}x'
TextGarbageAfter == <<"{","\"","a","\"",":","1","}","x">>

Texts == {TextEmpty, TextBlank, TextMissingValue, TextNested, TextArray, TextNull, TextString, TextNumber, TextLeadingZero, TextPadded, TextNbsp, TextTruncatedLiteral, TextUnclosed, TextTrailingComma, TextTrue, TextEmptyArray, TextGarbageAfter}

CallParse(text, maxD, maxN, strict) ==
    /\ lib = NoLib
    /\ lib' = [fn |-> "parse", text |-> text, maxDepth |-> maxD, maxNodes |-> maxN,
               strict |-> strict,
               result |-> parseJsonString(text, maxD, maxN, strict)]
    /\ UNCHANGED <<viewVars, page, hook, upload>>

(***************************************************************************)
(* Paths: the path string the tree builds for a node from the keys and     *)
(* indexes that lead to it, and the split the tree applies to that string  *)
(***************************************************************************)
MaxSegs == 3

KeySeg(k) == [kind |-> "key", key |-> k, index |-> 0]
IndexSeg(i) == [kind |-> "index", key |-> <<>>, index |-> i]

SegmentKeys == { <<"a">>, <<"b","1">>, <<>>, <<"a",".","b">> }
SegmentIndexes == { 0, 1, 10 }
Segments == { KeySeg(k) : k \in SegmentKeys } \cup { IndexSeg(i) : i \in SegmentIndexes }
SegLists == UNION { [1..n -> Segments] : n \in 0..MaxSegs }

\* the path prop of the node reached from the root ('') through segs
RECURSIVE RenderPath(_)
RenderPath(segs) ==
    IF segs = <<>> THEN <<>>
    ELSE LET parent == RenderPath(SubSeq(segs, 1, Len(segs) - 1))
             last == segs[Len(segs)]
         IN  IF last.kind = "index"
             THEN ArrayChildPath(parent, last.index)
             ELSE ObjectChildPath(parent, last.key)

CallRenderPath(segs) ==
    /\ lib = NoLib
    /\ lib' = [fn |-> "path", segs |-> segs, path |-> RenderPath(segs),
               result |-> SplitPath(RenderPath(segs))]
    /\ UNCHANGED <<viewVars, page, hook, upload>>

NextLib ==
    \/ \E g \in Graphs, maxD \in 0..MaxDepthBound, maxN \in 0..MaxLibNodes :
           CallAnalyze(g, maxD, maxN)
    \/ \E g \in SearchDocs, q \in LibQueries, cs \in BOOLEAN : CallSearch(g, q, cs)
    \/ \E text \in Texts, maxD \in 0..MaxDepthBound, maxN \in 0..MaxLibNodes,
          strict \in BOOLEAN : CallParse(text, maxD, maxN, strict)
    \/ \E segs \in SegLists : CallRenderPath(segs)
    \/ \E g \in SearchDocs : CallExtract(g)

SpecLib == InitLib /\ [][NextLib]_vars

(***************************************************************************)
(* HomePage (src/src/app/page.tsx, lines 22-150): the file list and the    *)
(* active file                                                             *)
(***************************************************************************)
MaxPageFiles == 4

\* maxDepth = 100 (default of parseJsonString), maxNodes: FILE_LIMITS.freeViewLimit
DefaultMaxDepth == 100
FreeViewLimit == 50

\* files the upload component can hand over
UploadedFiles ==
    { [name |-> "a.json", content |-> TextNested],
      [name |-> "b.json", content |-> TextMissingValue],
      [name |-> "c.txt",  content |-> TextArray] }
NewFileLists == UNION { [1..n -> UploadedFiles] : n \in 1..2 }

\* the body of newFiles.map: the file with its parse result
ProcessFile(file) ==
    LET parseResult == parseJsonString(file.content, DefaultMaxDepth, FreeViewLimit, FALSE)
    IN  [name |-> file.name, content |-> file.content,
         parsedData |-> parseResult.data, metadata |-> parseResult.metadata,
         errors |-> parseResult.errors, warnings |-> parseResult.warnings]

\* prev.filter((_, i) => i !== index), index counted from 0
RECURSIVE FilterOutIndex(_, _, _)
FilterOutIndex(prev, index, i) ==
    IF i >= Len(prev) THEN <<>>
    ELSE (IF i # index THEN << prev[i + 1] >> ELSE <<>>) \o FilterOutIndex(prev, index, i + 1)

\* the body of handleRemoveFile: the new file list and the new active index
RemoveFile(p, index) ==
    LET newFiles == FilterOutIndex(p.files, index, 0)
    IN  [files |-> newFiles,
         activeFileIndex |->
             IF index = p.activeFileIndex /\ Len(newFiles) > 0
             THEN Min(p.activeFileIndex, Len(newFiles) - 1)
             ELSE IF Len(newFiles) = 0 THEN 0
             ELSE p.activeFileIndex]

\* const activeFile = files[activeFileIndex]
ActiveFileDefined(p) == 0 <= p.activeFileIndex /\ p.activeFileIndex < Len(p.files)

InitPage ==
    /\ InitLib

HandleFileSelect(newFiles) ==
    /\ Len(page.files) + Len(newFiles) <= MaxPageFiles
    /\ page' = [files |-> page.files \o [i \in 1..Len(newFiles) |-> ProcessFile(newFiles[i])],
                activeFileIndex |-> IF Len(page.files) = 0 THEN 0
                                    ELSE page.activeFileIndex]
    /\ UNCHANGED <<viewVars, lib, hook, upload>>

\* onRemove of the status list
HandleRemoveFile(index) ==
    /\ page' = RemoveFile(page, index)
    /\ UNCHANGED <<viewVars, lib, hook, upload>>

\* the Delete shortcut
DeleteShortcut ==
    /\ ActiveFileDefined(page) /\ Len(page.files) > 0
    /\ page' = RemoveFile(page, page.activeFileIndex)
    /\ UNCHANGED <<viewVars, lib, hook, upload>>

\* Ctrl+ArrowUp
PreviousFile ==
    /\ Len(page.files) > 0
    /\ page' = [page EXCEPT !.activeFileIndex =
                    IF @ > 0 THEN @ - 1 ELSE Len(page.files) - 1]
    /\ UNCHANGED <<viewVars, lib, hook, upload>>

\* Ctrl+ArrowDown
NextFile ==
    /\ Len(page.files) > 0
    /\ page' = [page EXCEPT !.activeFileIndex =
                    IF @ < Len(page.files) - 1 THEN @ + 1 ELSE 0]
    /\ UNCHANGED <<viewVars, lib, hook, upload>>

\* a click on a file of the sidebar list
SelectFile(index) ==
    /\ page' = [page EXCEPT !.activeFileIndex = index]
    /\ UNCHANGED <<viewVars, lib, hook, upload>>

NextPage ==
    \/ \E newFiles \in NewFileLists : HandleFileSelect(newFiles)
    \/ \E index \in 0..(Len(page.files) - 1) : HandleRemoveFile(index)
    \/ DeleteShortcut
    \/ PreviousFile
    \/ NextFile
    \/ \E index \in 0..(Len(page.files) - 1) : SelectFile(index)

SpecPage == InitPage /\ [][NextPage]_vars

(***************************************************************************)
(* useAsyncState (src/src/hooks/use-async-state.ts)                        *)
(***************************************************************************)
MaxCalls == 3

\* values the caller passes to setData and setError
ManualValues == { 8, 9 }

Pending(i) == hook.calls[i] = "pending"
AnyPending == \E i \in 1..Len(hook.calls) : Pending(i)

InitHook ==
    /\ InitLib

\* execute(asyncFn) up to the await: setState(prev => ({...prev, loading: true, error: null}))
Execute ==
    /\ Len(hook.calls) < MaxCalls
    /\ hook' = [hook EXCEPT !.state.loading = TRUE,
                            !.state.error = 0,
                            !.calls = Append(@, "pending"),
                            !.overlapped = @ \/ AnyPending]
    /\ UNCHANGED <<viewVars, lib, page, upload>>

\* the promise of call i resolves: setState({ data: result, loading: false, error: null })
Resolve(i) ==
    /\ Pending(i)
    /\ hook' = [hook EXCEPT !.state = [data |-> i, loading |-> FALSE, error |-> 0],
                            !.calls[i] = "resolved"]
    /\ UNCHANGED <<viewVars, lib, page, upload>>

\* the promise of call i rejects: setState(prev => ({...prev, loading: false, error: err}))
Reject(i) ==
    /\ Pending(i)
    /\ hook' = [hook EXCEPT !.state.loading = FALSE,
                            !.state.error = i,
                            !.calls[i] = "rejected"]
    /\ UNCHANGED <<viewVars, lib, page, upload>>

\* setData(data); a behaviour makes at most one call of setData, setError, reset
HookSetData(d) ==
    /\ ~hook.manual
    /\ hook' = [hook EXCEPT !.state.data = d, !.manual = TRUE]
    /\ UNCHANGED <<viewVars, lib, page, upload>>

\* setError(error)
HookSetError(e) ==
    /\ ~hook.manual
    /\ hook' = [hook EXCEPT !.state.error = e, !.state.loading = FALSE, !.manual = TRUE]
    /\ UNCHANGED <<viewVars, lib, page, upload>>

\* reset()
HookReset ==
    /\ ~hook.manual
    /\ hook' = [hook EXCEPT !.state = [data |-> 0, loading |-> FALSE, error |-> 0],
                            !.manual = TRUE]
    /\ UNCHANGED <<viewVars, lib, page, upload>>

NextHook ==
    \/ Execute
    \/ \E i \in 1..Len(hook.calls) : Resolve(i)
    \/ \E i \in 1..Len(hook.calls) : Reject(i)
    \/ \E d \in ManualValues : HookSetData(d)
    \/ \E e \in ManualValues : HookSetError(e)
    \/ HookReset

SpecHook == InitHook /\ [][NextHook]_vars

(***************************************************************************)
(* FileUpload.handleFiles (src/unnamed/part_001) and extractZipFile        *)
(* (src/src/lib/zip-extractor.ts).  A file is described by what the checks *)
(* look at: its extension, whether it is a ZIP archive, its size class and,*)
(* for an archive, its entries.                                            *)
(***************************************************************************)
MaxSelection == 3
MaxFilesProp == 2

ZipEntry(name, ext, dir, size) == [name |-> name, ext |-> ext, dir |-> dir, size |-> size]
RegularFile(name, ext, size) ==
    [name |-> name, ext |-> ext, isZip |-> FALSE, size |-> size, corrupt |-> FALSE,
     entries |-> <<>>]
ZipFile(name, corrupt, entries) ==
    [name |-> name, ext |-> ".zip", isZip |-> TRUE, size |-> "ok", corrupt |-> corrupt,
     entries |-> entries]

SelectableFiles ==
    { RegularFile("a.json", ".json", "ok"),
      RegularFile("p.png", ".png", "ok"),
      RegularFile("e.json", ".json", "empty"),
      RegularFile("big.txt", ".txt", "tooLarge"),
      ZipFile("two.zip", FALSE, << ZipEntry("x.json", ".json", FALSE, "ok"),
                                   ZipEntry("y.txt", ".txt", FALSE, "ok") >>),
      ZipFile("mixed.zip", FALSE, << ZipEntry("d/", "", TRUE, "empty"),
                                     ZipEntry("d/x.json", ".json", FALSE, "ok"),
                                     ZipEntry("d/p.png", ".png", FALSE, "ok"),
                                     ZipEntry("d/e.json", ".json", FALSE, "empty"),
                                     ZipEntry("d/y.json", ".json", FALSE, "ok") >>),
      ZipFile("bad.zip", TRUE, <<>>) }
Selections == UNION { [1..n -> SelectableFiles] : n \in 0..MaxSelection }

\* Array.prototype.slice(0, n): a negative n counts from the end
Slice0(seq, n) ==
    IF n >= 0 THEN SubSeq(seq, 1, Min(n, Len(seq)))
    ELSE SubSeq(seq, 1, Max(Len(seq) + n, 0))

IsNotDir(zipFile) == ~zipFile.dir
SupportedExtensions == { ".json", ".txt" }
AcceptedTypes == { ".json", ".txt", ".zip" }

\* the for loop of extractZipFile over zipFiles
RECURSIVE ExtractLoop(_, _, _, _)
ExtractLoop(zipFiles, i, file, result) ==
    IF i > Len(zipFiles) THEN result
    ELSE LET zipFile == zipFiles[i]
         IN  IF zipFile.ext \notin SupportedExtensions
             THEN ExtractLoop(zipFiles, i + 1, file,
                      [result EXCEPT !.totalSkipped = @ + 1,
                                     !.warnings = Append(@, "unsupported")])
             ELSE IF zipFile.size = "tooLarge"
             THEN ExtractLoop(zipFiles, i + 1, file,
                      [result EXCEPT !.totalSkipped = @ + 1,
                                     !.warnings = Append(@, "too large")])
             ELSE IF zipFile.size = "empty"
             THEN ExtractLoop(zipFiles, i + 1, file,
                      [result EXCEPT !.totalSkipped = @ + 1,
                                     !.warnings = Append(@, "empty")])
             ELSE ExtractLoop(zipFiles, i + 1, file,
                      [result EXCEPT !.files = Append(@, [name |-> zipFile.name,
                                                          extractedFrom |-> file.name]),
                                     !.totalExtracted = @ + 1])

extractZipFile(file, maxFilesOpt) ==
    LET result == [files |-> <<>>, errors |-> <<>>, warnings |-> <<>>,
                   totalExtracted |-> 0, totalSkipped |-> 0]
        zipFiles == Slice0(SelectSeq(file.entries, IsNotDir), maxFilesOpt)
    IN  IF file.corrupt
        THEN [result EXCEPT !.errors = Append(@, "failed to process")]
        ELSE IF Len(zipFiles) = 0
        THEN [result EXCEPT !.warnings = Append(@, "no extractable files")]
        ELSE LET r1 == IF Len(file.entries) > maxFilesOpt
                       THEN [result EXCEPT !.warnings = Append(@, "only processing first")]
                       ELSE result
                 r2 == ExtractLoop(zipFiles, 1, file, r1)
             IN  IF Len(r2.files) = 0 /\ Len(r2.errors) = 0
                 THEN [r2 EXCEPT !.warnings = Append(@, "no compatible files")]
                 ELSE r2

isZipFile(file) == file.isZip

\* the for loop of handleFiles; acc is <<processedFiles, errors, warnings>>
RECURSIVE HandleFilesLoop(_, _, _, _)
HandleFilesLoop(files, i, maxFiles, acc) ==
    IF ~(i < Min(Len(files), maxFiles)) THEN acc
    ELSE LET file == files[i + 1]
         IN  IF isZipFile(file)
             THEN LET extractionResult ==
                          extractZipFile(file, maxFiles - Len(acc.processedFiles))
                  IN  HandleFilesLoop(files, i + 1, maxFiles,
                          [processedFiles |-> acc.processedFiles \o extractionResult.files,
                           errors |-> acc.errors \o extractionResult.errors,
                           warnings |-> acc.warnings \o extractionResult.warnings])
             ELSE IF file.ext \notin AcceptedTypes
             THEN HandleFilesLoop(files, i + 1, maxFiles,
                      [acc EXCEPT !.errors = Append(@, "unsupported file type")])
             ELSE IF file.size = "tooLarge"
             THEN HandleFilesLoop(files, i + 1, maxFiles,
                      [acc EXCEPT !.errors = Append(@, "file too large")])
             ELSE IF file.size = "empty"
             THEN HandleFilesLoop(files, i + 1, maxFiles,
                      [acc EXCEPT !.errors = Append(@, "file is empty")])
             ELSE HandleFilesLoop(files, i + 1, maxFiles,
                      [acc EXCEPT !.processedFiles =
                           Append(@, [name |-> file.name, extractedFrom |-> ""])])

\* what one handleFiles call hands to onFileSelect and to onError
handleFiles(files, maxFiles) ==
    IF Len(files) = 0
    THEN [selected |-> <<>>, onFileSelectCalled |-> FALSE, messages |-> <<>>]
    ELSE LET acc == HandleFilesLoop(files, 0, maxFiles,
                        [processedFiles |-> <<>>, errors |-> <<>>, warnings |-> <<>>])
             errors == IF Len(files) > maxFiles
                       THEN Append(acc.errors, "only the first files were processed")
                       ELSE acc.errors
         IN  [selected |-> acc.processedFiles,
              onFileSelectCalled |-> Len(acc.processedFiles) > 0,
              messages |-> errors \o acc.warnings]

InitUpload ==
    /\ InitLib

CallHandleFiles(files, maxFiles) ==
    /\ upload = NoUpload
    /\ upload' = [fn |-> "handleFiles", files |-> files, maxFiles |-> maxFiles,
                  result |-> handleFiles(files, maxFiles)]
    /\ UNCHANGED <<viewVars, lib, page, hook>>

NextUpload ==
    \E files \in Selections, maxFiles \in 1..MaxFilesProp : CallHandleFiles(files, maxFiles)

SpecUpload == InitUpload /\ [][NextUpload]_vars

(***************************************************************************)
(* Positions of a document, as the path rule of the specification sees     *)
(* them (a document is a tree: every node but the root has one parent)     *)
(***************************************************************************)
NodeIds(g) == 1..Len(g)

ParentOf(g, id) ==
    CHOOSE p \in NodeIds(g) : \E i \in 1..Len(g[p].kids) : g[p].kids[i] = id

IndexIn(g, id) ==
    CHOOSE i \in 1..Len(g[ParentOf(g, id)].kids) : g[ParentOf(g, id)].kids[i] = id

IsMember(g, id) == id # 1 /\ g[ParentOf(g, id)].type = "object"

KeyOf(g, id) == g[ParentOf(g, id)].keys[IndexIn(g, id)]

RECURSIVE CanonPath(_, _)
CanonPath(g, id) ==
    IF id = 1 THEN <<>>
    ELSE LET up == CanonPath(g, ParentOf(g, id))
         IN  IF IsMember(g, id)
             THEN (IF up = <<>> THEN KeyOf(g, id) ELSE up \o <<".">> \o KeyOf(g, id))
             ELSE up \o <<"[">> \o NatToStr(IndexIn(g, id) - 1) \o <<"]">>

RECURSIVE LevelOf(_, _)
LevelOf(g, id) == IF id = 1 THEN 0 ELSE 1 + LevelOf(g, ParentOf(g, id))

RECURSIVE AncestorsOrSelf(_, _)
AncestorsOrSelf(g, id) ==
    IF id = 1 THEN {1} ELSE {id} \cup AncestorsOrSelf(g, ParentOf(g, id))

KidsOf(g, set) == UNION { { g[n].kids[i] : i \in 1..Len(g[n].kids) } : n \in set }
RECURSIVE Descendants(_, _)
Descendants(g, set) ==
    LET more == set \cup KidsOf(g, set)
    IN  IF more = set THEN set ELSE Descendants(g, more)
HasCycle(g) == \E n \in NodeIds(g) : n \in Descendants(g, KidsOf(g, {n}))

ValueNodes(seq) == Cardinality({ i \in 1..Len(seq) : seq[i].kind = "node" })
Folded(s, caseSensitive) == IF caseSensitive THEN s ELSE ToLowerCase(s)

(***************************************************************************)
(* Claims                                                                  *)
(***************************************************************************)

\* C1: in every render pass the shared counter equals the number of value
\* nodes emitted so far, never exceeds maxNodes, and is only ever incremented
\* (by exactly one) from a value below maxNodes.
C1_BudgetRespected ==
    /\ [](nodeCount <= maxNodes /\ nodeCount = ValueNodes(visible))
    /\ [][nodeCount' > nodeCount =>
             nodeCount < maxNodes /\ nodeCount' = nodeCount + 1]_vars

\* a completed pass that used up a budget of at least 2 and cut a sibling off
C1_Witness ==
    /\ pc = "idle"
    /\ maxNodes >= 2
    /\ nodeCount = maxNodes
    /\ \E i \in 1..Len(visible) : visible[i].kind = "limit"

\* C2: after a render pass that did not exhaust the budget, every displayed
\* composite node whose path is in the expansion set has all its immediate
\* children displayed, at every depth.
C2_ExpandedChildrenVisible ==
    (pc = "idle" /\ nodeCount < maxNodes) =>
        \A i \in 1..Len(visible) :
            (visible[i].kind = "node" /\ visible[i].path \in expandedPaths) =>
                \A k \in 1..Len(data[visible[i].id].kids) :
                    \E j \in 1..Len(visible) :
                        /\ visible[j].kind = "node"
                        /\ visible[j].id = data[visible[i].id].kids[k]

\* C3: a search effect that produces hits leaves in the expansion set the
\* canonical path of every hit and of every ancestor of it, the root included.
C3_HitsReachable ==
    [][(pc = "effect" /\ searchResults' # <<>>) =>
          \A i \in 1..Len(searchResults') :
              \A a \in AncestorsOrSelf(data, searchResults'[i].value) :
                  CanonPath(data, a) \in expandedPaths']_vars

\* C4: the library search returns no hit for an empty or whitespace-only query.
C4_BlankQueryNoHits ==
    (lib.fn = "search" /\ Trim(lib.query) = <<>>) => lib.result = <<>>

\* C5: in the tree view's hit list a node has at most one hit for its own key
\* containing the query (it must be an object member) and one for its value's
\* string containing the query; the key of an ancestor earns it nothing.
C5_KeyHitOnlyOnOwnKey ==
    pc = "idle" =>
        \A id \in NodeIds(data) :
            LET q == ToLowerCase(searchTerm)
                hits == { i \in 1..Len(searchResults) : searchResults[i].value = id }
                byKey == IF IsMember(data, id)
                            /\ Includes(ToLowerCase(KeyOf(data, id)), q)
                         THEN 1 ELSE 0
                byValue == IF Includes(ToLowerCase(StringOf(data, id)), q)
                           THEN 1 ELSE 0
            IN  Cardinality(hits) <= byKey + byValue

\* C6: in the tree view's hit list a hit whose value is an object or an array
\* stands only at an object member whose key contains the query, so never at
\* the root; {"name":"Widget","tags":["red","name-tag"]} searched for 'red'
\* gives exactly the hit tags[0].
C6_ValueCheckScalarsOnly ==
    pc = "idle" =>
        /\ \A i \in 1..Len(searchResults) :
               searchResults[i].type \in {"object", "array"} =>
                   /\ IsMember(data, searchResults[i].value)
                   /\ Includes(ToLowerCase(KeyOf(data, searchResults[i].value)),
                               ToLowerCase(searchTerm))
        /\ (data = DocWidget /\ searchTerm = <<"r","e","d">>) =>
               searchResults = << Hit(DocWidget, 4, <<"t","a","g","s","[","0","]">>) >>

\* C7: with n >= 1 hits and the cursor c in 0..n-1, next moves the cursor to
\* (c+1) mod n and previous to (c-1+n) mod n; a search effect that finds hits
\* puts the cursor at 0.
C7_CursorWraps ==
    [][LET n == Len(searchResults)
           c == currentSearchIndex
       IN  /\ (NavigateNext /\ n >= 1 /\ c \in 0..(n - 1)) =>
                  currentSearchIndex' = (c + 1) % n
           /\ (NavigatePrev /\ n >= 1 /\ c \in 0..(n - 1)) =>
                  currentSearchIndex' = (c - 1 + n) % n
           /\ (SearchEffect /\ searchResults' # <<>>) =>
                  currentSearchIndex' = 0]_vars

\* next has just wrapped from the last of three hits to the first
C7_Witness ==
    /\ lastOp = "next"
    /\ Len(searchResults) = 3
    /\ currentSearchIndex = 0

\* C8: with an empty hit list next and previous change nothing: the cursor is
\* and stays -1, and the hit list, the term and the expansion set are unchanged.
C8_NavigationNoopWhenEmpty ==
    [][((NavigateNext \/ NavigatePrev) /\ searchResults = <<>>) =>
          /\ currentSearchIndex = -1
          /\ currentSearchIndex' = -1
          /\ UNCHANGED <<searchResults, searchTerm, expandedPaths>>]_vars

\* next or previous has just been called on an empty hit list
C8_Witness ==
    /\ lastOp \in {"next", "prev"}
    /\ searchResults = <<>>
    /\ currentSearchIndex = -1

\* C9: analyzeJsonStructure returns nodeCount <= maxNodes and depth <= maxDepth;
\* on a document it counts the nodes of level <= maxDepth and stops at maxNodes.
C9_AnalyzeWithinBudgets ==
    lib.fn = "analyze" =>
        /\ lib.result.nodeCount <= lib.maxNodes
        /\ lib.result.depth <= lib.maxDepth
        /\ lib.g \in Docs =>
               lib.result.nodeCount =
                   Min(lib.maxNodes,
                       Cardinality({ id \in NodeIds(lib.g) :
                                        LevelOf(lib.g, id) <= lib.maxDepth }))

\* both budgets cut the walk of a document short
C9_Witness ==
    /\ lib.fn = "analyze"
    /\ lib.g \in Docs
    /\ lib.maxNodes >= 2
    /\ lib.result.nodeCount = lib.maxNodes
    /\ lib.result.depth = lib.maxDepth
    /\ Cardinality({ id \in NodeIds(lib.g) :
                        LevelOf(lib.g, id) <= lib.maxDepth }) > lib.maxNodes
    /\ \E id \in NodeIds(lib.g) : LevelOf(lib.g, id) > lib.maxDepth

\* C10: analyzeJsonStructure reports hasCircularReferences = true exactly for
\* the value graphs that contain a cycle.
C10_CycleFlag ==
    lib.fn = "analyze" => (lib.result.hasCircularReferences <=> HasCycle(lib.g))

\* the deepest nesting level of a document (root = 0)
DocDepth(g) == CHOOSE d \in 0..Len(g) :
                  /\ \E id \in NodeIds(g) : LevelOf(g, id) = d
                  /\ \A id \in NodeIds(g) : LevelOf(g, id) <= d

\* the values of a document at nesting level <= maxD
Countable(g, maxD) == Cardinality({ id \in NodeIds(g) : LevelOf(g, id) <= maxD })

\* C11: for a document with T values and deepest level D, analyzeJsonStructure
\* with maxNodes >= T and maxDepth >= D returns nodeCount = T, depth = D and the
\* type of the root value (also at the boundary maxNodes = T).
C11_ExactWithinBudgets ==
    (/\ lib.fn = "analyze"
     /\ lib.g \in Docs
     /\ lib.maxNodes >= Len(lib.g)
     /\ lib.maxDepth >= DocDepth(lib.g)) =>
        /\ lib.result.nodeCount = Len(lib.g)
        /\ lib.result.depth = DocDepth(lib.g)
        /\ lib.result.type = lib.g[1].type

\* a document of at least four values analysed with both budgets exactly at
\* its size and depth
C11_Witness ==
    /\ lib.fn = "analyze"
    /\ lib.g \in Docs
    /\ Len(lib.g) >= 4
    /\ lib.maxNodes = Len(lib.g)
    /\ lib.maxDepth = DocDepth(lib.g)
    /\ lib.result.nodeCount = Len(lib.g)

\* C12: for a fixed value and maxDepth the reported nodeCount does not decrease
\* when maxNodes grows, and on a document it equals the number of countable
\* values for every maxNodes at or above that number.
C12_MonotoneInMaxNodes ==
    lib.fn = "analyze" =>
        /\ \A m \in 0..lib.maxNodes :
               analyzeJsonStructure(lib.g, lib.maxDepth, m).nodeCount
                   <= lib.result.nodeCount
        /\ (lib.g \in Docs /\ lib.maxNodes >= Countable(lib.g, lib.maxDepth)) =>
               lib.result.nodeCount = Countable(lib.g, lib.maxDepth)

\* a budget above the total, where a smaller budget gave a smaller count
C12_Witness ==
    /\ lib.fn = "analyze"
    /\ lib.g \in Docs
    /\ Countable(lib.g, lib.maxDepth) >= 2
    /\ lib.maxNodes > Countable(lib.g, lib.maxDepth)
    /\ lib.result.nodeCount = Countable(lib.g, lib.maxDepth)
    /\ analyzeJsonStructure(lib.g, lib.maxDepth, 1).nodeCount < lib.result.nodeCount

\* the call parsed its text: JSON.parse accepted it and the result carries that value
ValuePresent == JSONparse(lib.text).ok /\ lib.result.data = JSONparse(lib.text).value

C14_NodeLimitWarning ==
    (/\ lib.fn = "parse"
     /\ JSONparse(lib.text).ok
     /\ Len(JSONparse(lib.text).value) > lib.maxNodes)
    => /\ \E i \in 1..Len(lib.result.warnings) : lib.result.warnings[i] = WarnNodes
       /\ IF lib.strict
          THEN lib.result.errors # <<>> /\ ~lib.result.metadata.isValid
          ELSE lib.result.errors = <<>> /\ lib.result.metadata.isValid

\* C15: when a syntactically valid document is nested deeper than maxDepth,
\* warnings contains a depth warning, the value is still returned, errors is
\* empty and isValid is true, whether or not strict is set.
C15_DepthLimitWarning ==
    (/\ lib.fn = "parse"
     /\ JSONparse(lib.text).ok
     /\ lib.maxNodes >= Len(JSONparse(lib.text).value)
     /\ DocDepth(JSONparse(lib.text).value) > lib.maxDepth)
    => /\ \E i \in 1..Len(lib.result.warnings) : lib.result.warnings[i] = WarnDepth
       /\ ValuePresent
       /\ lib.result.errors = <<>>
       /\ lib.result.metadata.isValid

\* C16: whenever parseJsonString fails on syntax, empty or whitespace-only text
\* included, the result has no value, at least one error string, isValid = false,
\* depth = 0 and nodeCount = 0, and it is returned as a result (nothing is thrown).
C16_SyntaxFailureResult ==
    (lib.fn = "parse" /\ ~JSONparse(lib.text).ok)
    => /\ lib.result.data = JsNull
       /\ Len(lib.result.errors) >= 1
       /\ ~lib.result.metadata.isValid
       /\ lib.result.metadata.depth = 0
       /\ lib.result.metadata.nodeCount = 0
       /\ lib.result.metadata.type = "unknown"

C16_Witness ==
    /\ lib.fn = "parse"
    /\ lib.text # <<>>
    /\ Trim(lib.text) = <<>>
    /\ lib.result.errors = << ErrInvalidSyntax >>
    /\ lib.result.data = JsNull

\* a segment as the string the split can give back
SegString(seg) == IF seg.kind = "index" THEN NatToStr(seg.index) ELSE seg.key

KeysHaveNoDelimiter(segs) ==
    \A i \in 1..Len(segs) :
        segs[i].kind = "key" => \A j \in 1..Len(segs[i].key) : ~IsDelim(segs[i].key[j])

\* C17: path round trip: for every segment list (object keys and non-negative
\* array indexes) in which no key contains '.', '[' or ']', rendering the path
\* and splitting it on '.', '[' and ']' with empty fragments dropped yields the
\* original segments, in the same order and in the same number.
C17_PathRoundTrip ==
    (lib.fn = "path" /\ KeysHaveNoDelimiter(lib.segs))
    => lib.result = [i \in 1..Len(lib.segs) |-> SegString(lib.segs[i])]

\* an object with at least one member whose members are all scalars
IsFlatObject(g) ==
    /\ g[1].type = "object"
    /\ Len(g[1].kids) >= 1
    /\ \A i \in 1..Len(g[1].kids) : g[g[1].kids[i]].type \notin {"object", "array"}

\* C18: for a flat object with K keys whose root is expanded: with a budget
\* maxNodes = N smaller than the K+1 nodes of the document the pass emits exactly
\* N nodes and a 'limit reached' marker stands at the Nth or a later position;
\* with a budget of at least K+1 all K keys are emitted and there is no marker.
C18_FlatObjectBudget ==
    (pc = "idle" /\ IsFlatObject(data) /\ <<>> \in expandedPaths)
    => LET K == Len(data[1].kids)
       IN  IF maxNodes < K + 1
           THEN /\ ValueNodes(visible) = maxNodes
                /\ \E i \in 1..Len(visible) : i >= maxNodes /\ visible[i].kind = "limit"
           ELSE /\ ValueNodes(visible) = K + 1
                /\ \A i \in 1..Len(visible) : visible[i].kind = "node"

\* the hits of the last searchInJson call that carry the value at position id
HitsAt(id) == { i \in 1..Len(lib.result) : lib.result[i].value = id }

\* C19: searchInJson returns its hits in depth-first pre-order of the document
\* (positions are numbered in that order); the key hit of a member comes
\* immediately before the value hit of the same path; a scalar member whose key
\* and value both contain the query yields exactly two hits with the same path;
\* and no path occurs more than twice in the result.
C19_HitOrder ==
    lib.fn = "search" =>
        LET r == lib.result
            g == lib.g
            term == Folded(lib.query, lib.caseSensitive)
        IN  /\ \A i, j \in 1..Len(r) : i < j => r[i].value <= r[j].value
            /\ \A id \in NodeIds(g) :
                   (/\ IsMember(g, id)
                    /\ ~IsObjectValue(g, id)
                    /\ LibKeyMatches(KeyOf(g, id), term, lib.caseSensitive)
                    /\ LibValueMatches(g, id, term, lib.caseSensitive))
                   => /\ Cardinality(HitsAt(id)) = 2
                      /\ \A i, j \in HitsAt(id) : r[i].path = r[j].path
            /\ \A i \in 1..Len(r) :
                   Cardinality({ j \in 1..Len(r) : r[j].path = r[i].path }) <= 2

\* the positions below id
Below(g, id) == Descendants(g, KidsOf(g, {id}))

\* a displayed composite with children whose path is not in the expansion set
CollapsedAt(i) ==
    /\ visible[i].kind = "node"
    /\ hasChildren(data, visible[i].id)
    /\ visible[i].path \notin expandedPaths

\* C20: a composite node whose path is not in the expansion set is emitted as a
\* single node and adds exactly 1 to the shared counter, however many
\* descendants it has; none of its descendants is emitted or counted.
C20_CollapsedCountsOne ==
    /\ [](pc \in {"nodes", "effect", "idle"} =>
            /\ nodeCount = ValueNodes(visible)
            /\ \A i \in 1..Len(visible) :
                   CollapsedAt(i) =>
                       \A j \in 1..Len(visible) :
                           visible[j].id \notin Below(data, visible[i].id))
    /\ [][(/\ pc = "nodes"
           /\ work # <<>>
           /\ hasChildren(data, Head(work).id)
           /\ Head(work).path \notin expandedPaths
           /\ ~LimitReached(nodeCount, maxNodes))
          => /\ nodeCount' = nodeCount + 1
             /\ visible' = Append(visible, Emitted(Head(work)))
             /\ work' = Tail(work)]_vars

\* a finished pass with budget to spare that shows a collapsed member with
\* two or more positions below it
C20_Witness ==
    /\ pc = "idle"
    /\ nodeCount < maxNodes
    /\ \E i \in 1..Len(visible) :
           /\ CollapsedAt(i)
           /\ visible[i].id # 1
           /\ Cardinality(Below(data, visible[i].id)) >= 2

\* the composites the last analyzeJsonStructure call descended into, in order
Expansions == traverse(lib.g, 1, 0, analyzeStart, lib.maxDepth, lib.maxNodes).expansions

RECURSIVE SumKids(_, _)
SumKids(g, n) == IF n = 0 THEN 0 ELSE Len(g[n].kids) + SumKids(g, n - 1)
\* the number of references held by the composites of g
EdgeCount(g) == SumKids(g, Len(g))

\* C21: analyzeJsonStructure terminates on every finite value graph, cycles and
\* shared sub-objects included, for every maxDepth and maxNodes: each composite
\* is descended into at most once per call, so the count is bounded by the root
\* plus the references of the graph whatever the budgets are; a composite met
\* again is counted but not descended into, so with budgets larger than the
\* graph the count is exactly that bound.
C21_ExpandedAtMostOnce ==
    lib.fn = "analyze" =>
        /\ \A i, j \in 1..Len(Expansions) : i # j => Expansions[i] # Expansions[j]
        /\ lib.result.nodeCount <= 1 + EdgeCount(lib.g)
        /\ (lib.maxNodes > EdgeCount(lib.g) /\ lib.maxDepth >= Len(lib.g))
           => lib.result.nodeCount = 1 + EdgeCount(lib.g)

C21_Witness ==
    /\ lib.fn = "analyze"
    /\ HasCycle(lib.g)
    /\ lib.maxNodes > 1 + EdgeCount(lib.g)
    /\ lib.maxDepth > Len(lib.g)
    /\ lib.result.nodeCount = 1 + EdgeCount(lib.g)
    /\ Len(Expansions) = Len(lib.g)

\* the path prop the JsonTreeNode at position id is created with, when the
\* nodes from the root down to it are rendered
RECURSIVE TreeNodePath(_, _)
TreeNodePath(g, id) ==
    IF id = 1 THEN <<>>
    ELSE IF IsMember(g, id)
    THEN ObjectChildPath(TreeNodePath(g, ParentOf(g, id)), KeyOf(g, id))
    ELSE ArrayChildPath(TreeNodePath(g, ParentOf(g, id)), IndexIn(g, id) - 1)

\* the children of an expanded root, as the tree view creates them
RootChildren(g) == renderChildren(g, Element(1, <<>>, 0, TRUE), 1, Len(g) + 1, {})

HitPathsAgree(g, hits) ==
    \A i \in 1..Len(hits) : hits[i].path = TreeNodePath(g, hits[i].value)

\* C22: all four path producers assign the same string to the same position of
\* a document: a hit path of the library searchInJson and of the tree view's
\* own search, and the path extractJsonPaths lists for a position, each equal
\* the path of the tree node at that position ('.key' for a member, bare 'key'
\* under an empty parent path, '[i]' for an array element).
C22_PathProducersAgree ==
    /\ lib.fn = "search" =>
           /\ HitPathsAgree(lib.g, lib.result)
           /\ HitPathsAgree(lib.g, TreeSearch(lib.g, lib.query))
    /\ lib.fn = "extract" =>
           /\ lib.result = [k \in 1..(Len(lib.g) - 1) |-> TreeNodePath(lib.g, k + 1)]
           /\ \A i \in 1..Len(RootChildren(lib.g)) :
                  RootChildren(lib.g)[i].path = lib.result[RootChildren(lib.g)[i].id - 1]

\* a search under the root array that has a hit below an element
C22_Witness ==
    /\ lib.fn = "search"
    /\ lib.g[1].type = "array"
    /\ \E i \in 1..Len(lib.result) : LevelOf(lib.g, lib.result[i].value) = 2
    /\ TreeSearch(lib.g, lib.query) # <<>>

\* C23: within one document, two distinct positions never render to the same
\* path string, and no position other than the root renders to the root path
\* (the empty string), so a path addresses one position only.
C23_PathsUnique ==
    lib.fn = "extract" =>
        /\ \A i, j \in 1..Len(lib.result) : i # j => lib.result[i] # lib.result[j]
        /\ \A i \in 1..Len(lib.result) : lib.result[i] # <<>>

\* C24: cursor invariant of the tree view: after any sequence of search-term
\* changes, document changes, clear-search, 'next' and 'previous' actions, the
\* cursor is -1 exactly when the hit list is empty, and otherwise
\* 0 <= cursor < number of hits.
C24_CursorInRange ==
    /\ currentSearchIndex = -1 <=> searchResults = <<>>
    /\ searchResults # <<>> =>
           (0 <= currentSearchIndex /\ currentSearchIndex < Len(searchResults))

\* 'previous' on the first of several hits has moved the cursor to the last one
C24_Witness ==
    /\ pc = "idle"
    /\ lastOp = "prev"
    /\ Len(searchResults) >= 2
    /\ currentSearchIndex = Len(searchResults) - 1

\* C25: active-file invariant of the page: after any sequence of file
\* additions, removals of any index, Delete and Ctrl+ArrowUp/ArrowDown,
\* whenever the file list is non-empty 0 <= activeFileIndex < files.length.
C25_ActiveFileInRange ==
    Len(page.files) > 0 => ActiveFileDefined(page)

\* the paths of the displayed nodes that have children
TogglablePaths ==
    { visible[i].path : i \in { k \in 1..Len(visible) :
          visible[k].kind = "node" /\ hasChildren(data, visible[k].id) } }

\* C26: handleToggle(p) flips the membership of exactly the path p in the
\* expansion set and leaves every other path, the search term, the hit list and
\* the cursor unchanged; calling it twice with the same p restores the set; and
\* it is never invoked for a node without children (such a click changes nothing).
C26_ToggleFlipsOnePath ==
    /\ [][(ops' = ops + 1 /\ lastOp' = "toggle") =>
             /\ \/ expandedPaths' = expandedPaths
                \/ \E p \in TogglablePaths :
                       /\ p \in expandedPaths' <=> p \notin expandedPaths
                       /\ expandedPaths' \ {p} = expandedPaths \ {p}
             /\ expandedPaths' = expandedPaths => pc' = pc
             /\ UNCHANGED <<searchTerm, searchResults, currentSearchIndex, data>>]_vars
    /\ [](pc = "idle" =>
              \A p \in TogglablePaths :
                  TogglePath(TogglePath(expandedPaths, p), p) = expandedPaths)

\* the root has been collapsed by a toggle while a search with hits is shown
C26_Witness ==
    /\ pc = "idle"
    /\ lastOp = "toggle"
    /\ <<>> \notin expandedPaths
    /\ searchResults # <<>>

\* C27: running a search never collapses anything: the expansion set after the
\* search effect is a superset of the set before it, and it is unchanged when
\* the search yields no hit or the term is empty or whitespace-only.
C27_SearchOnlyExpands ==
    [][pc = "effect" =>
          /\ expandedPaths \subseteq expandedPaths'
          /\ (searchResults' = <<>> \/ Trim(searchTerm) = <<>>)
             => expandedPaths' = expandedPaths]_vars

\* a search with hits has run on a set that held entries of its own
C27_Witness ==
    /\ pc = "idle"
    /\ lastOp = "setSearchTerm"
    /\ searchResults # <<>>
    /\ <<"i","t","e","m","0">> \in expandedPaths
    /\ \E p \in expandedPaths : p \notin ExpandAllPaths

\* C28: in every render pass of JsonTreeView, the 'Node limit reached' alert is
\* shown if and only if the traversal of that same pass exhausted the budget
\* (the shared counter reached maxNodes); the condition is evaluated on the
\* counter value that results from rendering the tree nodes.
C28_AlertIffBudgetExhausted ==
    pc \in {"effect", "idle"} => (alert <=> nodeCount >= maxNodes)

\* C29: useAsyncState under overlapping calls: if execute is called again before
\* an earlier call's promise settles, then once all have settled state.data and
\* state.error reflect the outcome of the call that was started last, whichever
\* settles first, and state.loading is true as long as any call is pending.
C29_LastStartedWins ==
    (hook.overlapped /\ ~hook.manual) =>
        /\ AnyPending => hook.state.loading
        /\ ~AnyPending =>
               LET last == Len(hook.calls)
               IN  IF hook.calls[last] = "resolved"
                   THEN hook.state.data = last /\ hook.state.error = 0
                   ELSE hook.state.error = last

\* C30: one handleFiles call of the upload component hands at most maxFiles
\* files to onFileSelect, counting both directly read files and files extracted
\* from ZIP archives, for every mix of ZIP and regular files in the selection.
C30_AtMostMaxFiles ==
    upload.fn = "handleFiles" => Len(upload.result.selected) <= upload.maxFiles

====
